---- MODULE Spec2Model ----
(***************************************************************************)
(* Model of the EcoStyle scoring services.                                 *)
(*                                                                         *)
(*   src/backend/app.py  the 0-30 "EcoScore" backend: /analyze and         *)
(*                       /analyze-image, analyze_text_core, generate_tip,  *)
(*                       run_web_verification, fallback_reasoning          *)
(*   src/app.py          the earlier 0-100 backend: analyze_fabric         *)
(*   src/packaging_api_tester.py  PackagingAnalyzer.analyze_packaging      *)
(*                                                                         *)
(* Strings are TLA+ strings; Python's str.lower, str.strip and the `in`    *)
(* substring test are computed character by character.  Scores of the      *)
(* 0-30 backend are kept in tenths of a point (round(x, 1) yields a        *)
(* multiple of 0.1), scores of the 0-100 backend are kept in tenths too    *)
(* (round(x) yields a whole number: a multiple of ten tenths).  The        *)
(* classifier, the search API, OCR and the text generator are external:    *)
(* what they return is an input of the request.                            *)
(***************************************************************************)
EXTENDS Integers, Sequences, FiniteSets, TLC

VARIABLES
    service,            \* which program is running: "backend/app.py" or "app.py"
    claim_classifier,   \* TRUE: the pipeline loaded; FALSE: claim_classifier = None
    advice_generator,   \* src/app.py only: TRUE loaded, FALSE None
    SERPER_API_KEY,     \* src/backend/app.py only: TRUE when the key is set
    material_database,  \* the entity table, in iteration order
    request,            \* the request being served (NoRequest when idle)
    response,           \* what the handler returned for it (NoResponse when idle)
    again,              \* what the handler returned when the same request was sent again
    analyzer,           \* the PackagingAnalyzer: its five loaded tables (NoAnalyzer: none built)
    report              \* the last call of analyze_packaging: its arguments and its result

vars == <<service, claim_classifier, advice_generator, SERPER_API_KEY,
          material_database, request, response, again, analyzer, report>>

----------------------------------------------------------------------------
(* Bounds of the model *)

\* the most words of the vocabulary a request text is made of
MaxWords == 2
\* the most results the search API returns for one query
MaxHits == 3

----------------------------------------------------------------------------
(* Program constants *)

MAX_ECOSCORE == 30
ENV_CLAIM_BONUS == 2
WEB_VERIFICATION_CAP == 2
\* score when nothing matched, 0-30 backend
DEFAULT_ECOSCORE == 15
\* score when nothing matched, 0-100 backend
DEFAULT_SCORE == 45
\* the cap of the 0-100 backend, per matched material
MAX_SCORE == 100
\* the bonus of the 0-100 backend, per matched material
CLAIM_BONUS == 5
\* r["score"] > 0.5, in hundredths
CLAIM_THRESHOLD == 50
\* tenths per point: round(x, 1) keeps one decimal place
TENTHS == 10

----------------------------------------------------------------------------
(* Python string operations *)

\* str.lower on one character (ASCII letters)
LowerChar(c) ==
    CASE c = "A" -> "a" [] c = "B" -> "b" [] c = "C" -> "c" [] c = "D" -> "d"
      [] c = "E" -> "e" [] c = "F" -> "f" [] c = "G" -> "g" [] c = "H" -> "h"
      [] c = "I" -> "i" [] c = "J" -> "j" [] c = "K" -> "k" [] c = "L" -> "l"
      [] c = "M" -> "m" [] c = "N" -> "n" [] c = "O" -> "o" [] c = "P" -> "p"
      [] c = "Q" -> "q" [] c = "R" -> "r" [] c = "S" -> "s" [] c = "T" -> "t"
      [] c = "U" -> "u" [] c = "V" -> "v" [] c = "W" -> "w" [] c = "X" -> "x"
      [] c = "Y" -> "y" [] c = "Z" -> "z" [] OTHER -> c

\* s.lower()
RECURSIVE lower(_)
lower(s) ==
    IF Len(s) = 0 THEN ""
    ELSE LowerChar(SubSeq(s, 1, 1)) \o lower(SubSeq(s, 2, Len(s)))

\* a in s: a occurs in s as a contiguous substring ("" occurs in every string)
Contains(a, s) ==
    \E i \in 1..(Len(s) - Len(a) + 1) : SubSeq(s, i, i + Len(a) - 1) = a

\* the characters str.strip() removes, str.isspace() of Python, among the
\* ASCII characters: space, tab, line feed, vertical tab (0x0B), form feed,
\* carriage return and the separators 0x1C to 0x1F; the five strings of the
\* second line hold the characters that have no escape, in that order
IsSpace(c) ==
    c \in {" ", "\t", "\n", "\r", "\f",
           "", "", "", "", ""}

RECURSIVE lstrip(_)
lstrip(s) ==
    IF Len(s) > 0 /\ IsSpace(SubSeq(s, 1, 1)) THEN lstrip(SubSeq(s, 2, Len(s))) ELSE s

RECURSIVE rstrip(_)
rstrip(s) ==
    IF Len(s) > 0 /\ IsSpace(SubSeq(s, Len(s), Len(s)))
    THEN rstrip(SubSeq(s, 1, Len(s) - 1)) ELSE s

\* s.strip()
strip(s) == rstrip(lstrip(s))

----------------------------------------------------------------------------
(* Python arithmetic *)

Min(a, b) == IF a <= b THEN a ELSE b

\* num / den rounded to the nearest integer, a tie going to the even one
\* (Python's round; num >= 0, den > 0)
RoundHalfEven(num, den) ==
    LET q == num \div den
        r == num % den
    IN  IF 2 * r < den THEN q
        ELSE IF 2 * r > den THEN q + 1
        ELSE IF q % 2 = 0 THEN q ELSE q + 1

\* Round1 with the second decimal place cut off instead of rounded
Round1Truncated(total, n) == (TENTHS * total) \div n

\* round(total / n, 1), in tenths.  total / n is a float; a tie at the second
\* decimal place is a multiple of 1/4 for n < 20, which the float holds exactly.
Round1(total, n) == RoundHalfEven(TENTHS * total, n)

\* round(total / n), in tenths
Round0(total, n) == TENTHS * RoundHalfEven(total, n)

----------------------------------------------------------------------------
(* Inputs: what the client and the external services supply *)

\* the words request texts are made of
Words ==
    {"Organic Cotton/PET/Tencel", "HEMP", "Polyester", "tencel", "cotton", "silk"}

\* the texts of at most n words
RECURSIVE Sentences(_)
Sentences(n) ==
    IF n = 0 THEN {""}
    ELSE LET S == Sentences(n - 1)
         IN  S \cup {IF s = "" THEN w ELSE s \o " " \o w : s \in S, w \in Words}

\* data["text"] of a request ("" also stands for a missing text)
Texts == Sentences(MaxWords)

\* what claim_classifier(input_text) returns: a list of {label, score}, the
\* score in hundredths
BertOutputs ==
    { <<[label |-> "environmental", score |-> 90]>>,
      <<[label |-> "environmental", score |-> 50]>>,
      <<[label |-> "none", score |-> 99]>> }

\* how the search request ends: it raises (timeout, bad JSON), or it answers
\* with data["organic"] holding `organic` results
WebOutcomes ==
    {[failed |-> TRUE, organic |-> 0]}
        \cup {[failed |-> FALSE, organic |-> n] : n \in 0..MaxHits}

\* what OCR does with the uploaded image: it raises, or it returns raw text,
\* which ends with the form feed that closes a page
OcrOutcomes ==
    { [failed |-> TRUE, raw |-> ""],
      [failed |-> FALSE, raw |-> " \n\f"],
      [failed |-> FALSE, raw |-> " Hemp\n\f"],
      [failed |-> FALSE, raw |-> "Organic Cotton/PET/Tencel"] }

\* what advice_generator(prompt) returns as generated_text
GeneratedTexts == {" Choose natural fibers. ", "wash less"}

\* entries data/fibers.json may hold (certifications, biodegradable and
\* recyclable are carried along unread and are left out)
FiberPool ==
    << [key |-> "hemp", includes |-> <<>>,
        displayName |-> "Hemp", ecoScore |-> 30],
       [key |-> "organic_cotton", includes |-> <<"organic cotton", "Bio Cotton">>,
        displayName |-> "Organic Cotton", ecoScore |-> 23],
       [key |-> "polyester", includes |-> <<"PET", "poly">>,
        displayName |-> "Polyester", ecoScore |-> 0],
       [key |-> "tencel_lyocell", includes |-> <<"Tencel">>,
        displayName |-> "Lyocell", ecoScore |-> 20] >>

\* the tables data/fibers.json may hold: the first entries of the pool
FiberTables == {SubSeq(FiberPool, 1, n) : n \in 0..Len(FiberPool)}

\* material_database of src/app.py (pros and cons are carried along unread)
FabricDatabase ==
    << [name |-> "organic cotton", score |-> 90],
       [name |-> "cotton", score |-> 50],
       [name |-> "recycled polyester", score |-> 75],
       [name |-> "polyester", score |-> 20],
       [name |-> "linen", score |-> 95],
       [name |-> "hemp", score |-> 98],
       [name |-> "tencel", score |-> 85],
       [name |-> "spandex", score |-> 15],
       [name |-> "viscose", score |-> 40] >>

NoRequest == [route |-> "none"]
NoResponse == [status |-> 0]

\* a request: the route, the text or image sent, and what each external
\* service answers while it is served
Requests ==
    [route : {"/analyze"}, text : Texts, has_image : {FALSE},
     ocr : {[failed |-> TRUE, raw |-> ""]}, bert_raw : BertOutputs,
     web : WebOutcomes, generated : {""}, is_json : {TRUE}]
    \cup
    [route : {"/analyze-image"}, text : {""}, has_image : BOOLEAN,
     ocr : OcrOutcomes, bert_raw : BertOutputs,
     web : WebOutcomes, generated : {""}, is_json : {FALSE}]

\* a request to src/app.py: a JSON body with a text ("" also stands for a
\* missing text), or a body that is not JSON
FabricRequests ==
    [route : {"/analyze"}, text : Texts, has_image : {FALSE},
     ocr : {[failed |-> TRUE, raw |-> ""]}, bert_raw : BertOutputs,
     web : {[failed |-> TRUE, organic |-> 0]}, generated : GeneratedTexts,
     is_json : {TRUE}]
    \cup
    [route : {"/analyze"}, text : {""}, has_image : {FALSE},
     ocr : {[failed |-> TRUE, raw |-> ""]}, bert_raw : BertOutputs,
     web : {[failed |-> TRUE, organic |-> 0]}, generated : GeneratedTexts,
     is_json : {FALSE}]

----------------------------------------------------------------------------
(* src/backend/app.py *)

\* jsonify({"error": msg}), status
ErrorResponse(status, msg) ==
    [status |-> status, error |-> msg, input_text |-> "", overallScore |-> 0,
     summary |-> "", materials |-> <<>>, total_score |-> 0,
     recommendation |-> "", environmentalClaim |-> FALSE,
     bert_raw |-> <<>>, webVerification |-> 0,
     fallbackUsed |-> FALSE, fallbackReason |-> ""]

\* extract_text_from_image: the stripped OCR text, "" when OCR raises
extract_text_from_image(ocr) == IF ocr.failed THEN "" ELSE strip(ocr.raw)

\* run_web_verification without the check of SERPER_API_KEY
run_web_verification_unkeyed(outcome) ==
    IF outcome.failed THEN 0 ELSE outcome.organic

\* run_web_verification: the number of results returned
run_web_verification(outcome) ==
    IF ~SERPER_API_KEY THEN 0
    ELSE IF outcome.failed THEN 0
    ELSE outcome.organic

\* generate_tip with > for >= at the second band
generate_tip_strict(score) ==
    IF score >= 24 * TENTHS
    THEN "Excellent choice. Focus on durability and mindful care."
    ELSE IF score > 18 * TENTHS
    THEN "Fairly sustainable. Washing less and air-drying helps."
    ELSE IF score >= 12 * TENTHS
    THEN "Moderate impact. Consider natural or recycled fibers."
    ELSE "High impact. Prefer hemp, linen, or recycled materials."

\* generate_tip, the score in tenths
generate_tip(score) ==
    IF score >= 24 * TENTHS
    THEN "Excellent choice. Focus on durability and mindful care."
    ELSE IF score >= 18 * TENTHS
    THEN "Fairly sustainable. Washing less and air-drying helps."
    ELSE IF score >= 12 * TENTHS
    THEN "Moderate impact. Consider natural or recycled fibers."
    ELSE "High impact. Prefer hemp, linen, or recycled materials."

\* is_claim = any(r["label"] == "environmental" and r["score"] > 0.5 ...)
IsClaim(bert_raw) ==
    \E k \in DOMAIN bert_raw :
        bert_raw[k].label = "environmental" /\ bert_raw[k].score > CLAIM_THRESHOLD

\* MatchLoop appending an entry once for every alias that occurs
RECURSIVE MatchLoopPerAlias(_, _, _)
MatchLoopPerAlias(items, lower_text, acc) ==
    IF items = <<>> THEN acc
    ELSE LET fiber == Head(items)
             aliases == fiber.includes \o <<fiber.key>>
             hits == Cardinality({k \in DOMAIN aliases :
                                    Contains(lower(aliases[k]), lower_text)})
         IN  MatchLoopPerAlias(Tail(items), lower_text,
                [matched |-> acc.matched \o
                                [k \in 1..hits |-> [name |-> fiber.displayName,
                                                    ecoScore |-> fiber.ecoScore]],
                 total_score |-> acc.total_score + hits * fiber.ecoScore])

\* one pass of the loop over material_database.items(): acc holds matched and
\* total_score
RECURSIVE MatchLoop(_, _, _)
MatchLoop(items, lower_text, acc) ==
    IF items = <<>> THEN acc
    ELSE LET fiber == Head(items)
             aliases == fiber.includes \o <<fiber.key>>
             hit == \E k \in DOMAIN aliases : Contains(lower(aliases[k]), lower_text)
         IN  MatchLoop(Tail(items), lower_text,
                IF hit
                THEN [matched |-> Append(acc.matched,
                                     [name |-> fiber.displayName,
                                      ecoScore |-> fiber.ecoScore]),
                      total_score |-> acc.total_score + fiber.ecoScore]
                ELSE acc)

\* Score without the final clamp
ScoreUnclamped(total_score, n, is_claim, web) ==
    IF n = 0 THEN DEFAULT_ECOSCORE * TENTHS
    ELSE Round1(total_score, n)
           + (IF is_claim THEN ENV_CLAIM_BONUS * TENTHS ELSE 0)
           + Min(web, WEB_VERIFICATION_CAP) * TENTHS

\* Score with one cap over the sum of the bonuses
ScoreSharedCap(total_score, n, is_claim, web) ==
    IF n = 0 THEN DEFAULT_ECOSCORE * TENTHS
    ELSE Min(Round1(total_score, n)
               + Min((IF is_claim THEN ENV_CLAIM_BONUS ELSE 0) + web,
                     WEB_VERIFICATION_CAP) * TENTHS,
             MAX_ECOSCORE * TENTHS)

\* Score with the claim bonus added to the default too
ScoreBonusWithoutMatch(total_score, n, is_claim, web) ==
    IF n = 0
    THEN DEFAULT_ECOSCORE * TENTHS + (IF is_claim THEN ENV_CLAIM_BONUS * TENTHS ELSE 0)
    ELSE Min(Round1(total_score, n)
               + (IF is_claim THEN ENV_CLAIM_BONUS * TENTHS ELSE 0)
               + Min(web, WEB_VERIFICATION_CAP) * TENTHS,
             MAX_ECOSCORE * TENTHS)

\* the scoring block, the result in tenths
Score(total_score, n, is_claim, web) ==
    IF n = 0 THEN DEFAULT_ECOSCORE * TENTHS
    ELSE Min(Round1(total_score, n)
               + (IF is_claim THEN ENV_CLAIM_BONUS * TENTHS ELSE 0)
               + Min(web, WEB_VERIFICATION_CAP) * TENTHS,
             MAX_ECOSCORE * TENTHS)

\* Summary with the thresholds of the 0-100 scale
SummaryOldScale(score) ==
    IF score >= 85 * TENTHS THEN "Excellent Choice"
    ELSE IF score >= 60 * TENTHS THEN "Good Choice"
    ELSE IF score >= 40 * TENTHS THEN "Could Be Better"
    ELSE "Consider Alternatives"

\* the summary block, the score in tenths
Summary(score) ==
    IF score >= 24 * TENTHS THEN "Excellent Choice"
    ELSE IF score >= 18 * TENTHS THEN "Good Choice"
    ELSE IF score >= 12 * TENTHS THEN "Could Be Better"
    ELSE "Consider Alternatives"

\* analyze_text_core; ext holds what the classifier and the search answer
analyze_text_core(input_text, fallback_used, fallback_reason, ext) ==
    IF ~claim_classifier THEN ErrorResponse(500, "EnvironmentalBERT unavailable")
    ELSE LET is_claim == IsClaim(ext.bert_raw)
             found == MatchLoop(material_database, lower(input_text),
                                [matched |-> <<>>, total_score |-> 0])
             web == IF found.matched # <<>> THEN run_web_verification(ext.web) ELSE 0
             score == Score(found.total_score, Len(found.matched), is_claim, web)
         IN  [status |-> 200, error |-> "", input_text |-> input_text,
              overallScore |-> score, summary |-> Summary(score),
              materials |-> found.matched, total_score |-> found.total_score,
              recommendation |-> generate_tip(score),
              environmentalClaim |-> is_claim, bert_raw |-> ext.bert_raw,
              webVerification |-> web,
              fallbackUsed |-> fallback_used, fallbackReason |-> fallback_reason]

\* what random.choice(list(material_database.values())) may return
Choices ==
    IF material_database = <<>> THEN {[displayName |-> ""]}
    ELSE {material_database[i] : i \in DOMAIN material_database}

\* fallback_reasoning; fiber is the entry random.choice returned (random.choice
\* raises IndexError on an empty table: the request ends in a 500)
fallback_reasoning(fiber, ext) ==
    IF material_database = <<>> THEN ErrorResponse(500, "Internal Server Error")
    ELSE analyze_text_core("approximate fabric detected: " \o fiber.displayName,
                           TRUE, "OCR confidence too low", ext)

\* the /analyze route
analyze_text(req) ==
    IF req.text = "" THEN ErrorResponse(400, "No text provided")
    ELSE analyze_text_core(req.text, FALSE, "", req)

\* analyze_image with the test of the OCR text turned round
analyze_image_inverted(req, fiber) ==
    IF ~req.has_image THEN ErrorResponse(400, "No image uploaded")
    ELSE LET text == extract_text_from_image(req.ocr)
         IN  IF text # "" THEN fallback_reasoning(fiber, req)
             ELSE analyze_text_core(text, FALSE, "", req)

\* the /analyze-image route
analyze_image(req, fiber) ==
    IF ~req.has_image THEN ErrorResponse(400, "No image uploaded")
    ELSE LET text == extract_text_from_image(req.ocr)
         IN  IF text = "" THEN fallback_reasoning(fiber, req)
             ELSE analyze_text_core(text, FALSE, "", req)

----------------------------------------------------------------------------
(* src/app.py *)

\* the loop over material_database.items(): acc holds materials_found and
\* total_score (material_count is the length of materials_found)
RECURSIVE FabricLoop(_, _, _)
FabricLoop(items, lower_input, acc) ==
    IF items = <<>> THEN acc
    ELSE LET details == Head(items)
         IN  FabricLoop(Tail(items), lower_input,
                IF Contains(details.name, lower_input)
                THEN [matched |-> Append(acc.matched,
                                     [name |-> details.name,
                                      ecoScore |-> details.score]),
                      total_score |-> acc.total_score + details.score]
                ELSE acc)

\* the bonus, the cap and overall_score, the result in tenths
FabricScore(total_score, material_count, is_environmental_claim) ==
    LET total == IF is_environmental_claim /\ material_count > 0
                 THEN Min(total_score + CLAIM_BONUS * material_count,
                          MAX_SCORE * material_count)
                 ELSE total_score
    IN  IF material_count > 0 THEN Round0(total, material_count)
        ELSE DEFAULT_SCORE * TENTHS

\* FabricSummary with the comparison of the second band turned round
FabricSummaryFlipped(overall_score) ==
    IF overall_score >= 85 * TENTHS THEN "Excellent Choice"
    ELSE IF overall_score <= 60 * TENTHS THEN "Good Choice"
    ELSE IF overall_score >= 40 * TENTHS THEN "Could Be Better"
    ELSE "Consider Alternatives"

\* the summary text, the score in tenths
FabricSummary(overall_score) ==
    IF overall_score >= 85 * TENTHS THEN "Excellent Choice"
    ELSE IF overall_score >= 60 * TENTHS THEN "Good Choice"
    ELSE IF overall_score >= 40 * TENTHS THEN "Could Be Better"
    ELSE "Consider Alternatives"

\* analyze_fabric (total_score of the result is its value when the loop ends)
analyze_fabric(req) ==
    IF ~req.is_json THEN ErrorResponse(400, "Request must be JSON")
    ELSE IF req.text = "" THEN ErrorResponse(400, "No text provided")
    ELSE IF ~claim_classifier \/ ~advice_generator
    THEN ErrorResponse(500, "Models are not loaded. Cannot perform analysis.")
    ELSE LET is_environmental_claim == IsClaim(req.bert_raw)
             found == FabricLoop(material_database, lower(req.text),
                                 [matched |-> <<>>, total_score |-> 0])
             overall_score == FabricScore(found.total_score, Len(found.matched),
                                          is_environmental_claim)
         IN  [status |-> 200, error |-> "", input_text |-> req.text,
              overallScore |-> overall_score,
              summary |-> FabricSummary(overall_score),
              materials |-> found.matched, total_score |-> found.total_score,
              recommendation |-> strip(req.generated),
              environmentalClaim |-> is_environmental_claim,
              bert_raw |-> req.bert_raw, webVerification |-> 0,
              fallbackUsed |-> FALSE, fallbackReason |-> ""]

----------------------------------------------------------------------------
(* src/packaging_api_tester.py *)

\* str.upper on one character (ASCII letters)
UpperChar(c) ==
    CASE c = "a" -> "A" [] c = "b" -> "B" [] c = "c" -> "C" [] c = "d" -> "D"
      [] c = "e" -> "E" [] c = "f" -> "F" [] c = "g" -> "G" [] c = "h" -> "H"
      [] c = "i" -> "I" [] c = "j" -> "J" [] c = "k" -> "K" [] c = "l" -> "L"
      [] c = "m" -> "M" [] c = "n" -> "N" [] c = "o" -> "O" [] c = "p" -> "P"
      [] c = "q" -> "Q" [] c = "r" -> "R" [] c = "s" -> "S" [] c = "t" -> "T"
      [] c = "u" -> "U" [] c = "v" -> "V" [] c = "w" -> "W" [] c = "x" -> "X"
      [] c = "y" -> "Y" [] c = "z" -> "Z" [] OTHER -> c

\* s.capitalize(): the first character in upper case, the rest in lower case
capitalize(s) ==
    IF Len(s) = 0 THEN ""
    ELSE UpperChar(SubSeq(s, 1, 1)) \o lower(SubSeq(s, 2, Len(s)))

\* d.get(k, default) on a dict, a function of its keys
Get(d, k, default) == IF k \in DOMAIN d THEN d[k] ELSE default

\* a dict without keys
EmptyDict == [k \in {} |-> 0]

\* entries materials_db.json may hold; the fourth has the name of the first
\* in another letter case
MaterialsPool ==
    << [name |-> "PET Bottle", mat_id |-> "MAT001", category |-> "Plastic"],
       [name |-> "LDPE Film", mat_id |-> "MAT002", category |-> "Plastic"],
       [name |-> "Compostable PLA Cup", mat_id |-> "MAT003",
        category |-> "Bioplastic"],
       [name |-> "pet bottle", mat_id |-> "MAT004", category |-> "Plastic"] >>

\* recycling_infra_db.json: city -> mat_id -> outcome; it may hold nothing
InfraTables ==
    { EmptyDict,
      [city \in {"mumbai", "nagpur"} |->
        IF city = "mumbai"
        THEN [m \in {"MAT001", "MAT002"} |->
               [outcome |-> IF m = "MAT001" THEN "Widely Recycled"
                            ELSE "Limited Recycling",
                notes |-> "Collected in Mumbai."]]
        ELSE [m \in {"MAT001"} |->
               [outcome |-> "Widely Recycled", notes |-> "Collected in Nagpur."]]] }

\* alternatives_db.json: mat_id -> alternatives
AlternativesTable ==
    [m \in {"MAT001", "MAT002"} |->
        IF m = "MAT001" THEN <<"rPET Bottle", "Glass Bottle">> ELSE <<"Paper Wrap">>]

\* esg_sdg_db.json: category -> reporting points
EsgTable == [c \in {"Plastic"} |-> <<"SDG 12: responsible consumption">>]

\* regulations_db.json
RegulationsTable == <<"Plastic Waste Management Rules">>

\* the analyzers _load_databases may build: the first entries of the pool,
\* with or without infrastructure data
Analyzers ==
    [materials : {SubSeq(MaterialsPool, 1, n) : n \in 0..Len(MaterialsPool)},
     infra : InfraTables,
     alternatives : {AlternativesTable},
     regulations : {RegulationsTable},
     esg_sdg : {EsgTable}]

\* the material names and the city names a caller may pass
MaterialNames ==
    {"PET Bottle", "pet bottle", "LDPE FILM", "compostable pla cup",
     "Glass Jar", "PET", ""}
CityNames == {"Mumbai", "mumbai", "NAGPUR", "Pune", ""}

NoAnalyzer == [materials |-> <<>>]
NoReport == [material_name |-> "", city_name |-> "", called |-> FALSE]

\* find_material_by_name missing .lower() on both sides
RECURSIVE FindExact(_, _)
FindExact(items, name) ==
    IF items = <<>> THEN <<>>
    ELSE IF Head(items).name = name THEN <<Head(items)>>
    ELSE FindExact(Tail(items), name)

find_material_by_name_exact(self, name) == FindExact(self.materials, name)

\* the loop of find_material_by_name over the materials left
RECURSIVE Find(_, _)
Find(items, name) ==
    IF items = <<>> THEN <<>>
    ELSE IF lower(Head(items).name) = lower(name) THEN <<Head(items)>>
    ELSE Find(Tail(items), name)

\* find_material_by_name: <<mat>> for the material found, <<>> for None
find_material_by_name(self, name) == Find(self.materials, name)

\* analyze_packaging: the result, and self as the call leaves it
analyze_packaging(self, material_name, city_name) ==
    LET found == find_material_by_name(self, material_name)
    IN  IF found = <<>>
        THEN [self |-> self,
              result |-> [error |-> "Material '" \o material_name
                                      \o "' not found in database."]]
        ELSE LET material == found[1]
                 city_name_lower == lower(city_name)
                 mat_id == material.mat_id
                 city_infra == Get(self.infra, city_name_lower, EmptyDict)
                 recyclability_info ==
                     Get(city_infra, mat_id,
                         [outcome |-> "Data Unavailable",
                          notes |-> "No specific recycling data for this material in this city."])
                 sustainable_swaps == Get(self.alternatives, mat_id, <<>>)
                 esg_points == Get(self.esg_sdg, material.category, <<>>)
                 relevant_regulations == self.regulations
             IN  [self |-> self,
                  result |->
                    [query |-> [material |-> material.name,
                                city |-> capitalize(city_name)],
                     localized_outcome |-> recyclability_info,
                     sustainable_alternatives |-> sustainable_swaps,
                     strategic_insights |->
                        [esg_reporting_points |-> esg_points,
                         marketing_advantage |->
                            "Highlighting a switch from " \o material.name
                              \o " to a sustainable alternative can improve brand perception among eco-conscious consumers.",
                         investor_relations |->
                            "Demonstrating proactive management of packaging waste strengthens ESG credentials, appealing to modern investors."],
                     compliance_updates |->
                        [national_regulations |-> relevant_regulations]]]

----------------------------------------------------------------------------
(* The services *)

\* the handler a request is routed to
Handle(req, fiber) ==
    IF service = "app.py" THEN analyze_fabric(req)
    ELSE IF req.route = "/analyze" THEN analyze_text(req)
    ELSE analyze_image(req, fiber)

\* module start-up.  src/app.py loads both pipelines in one try block: both
\* are loaded or both are None.
Init ==
    /\ service \in {"backend/app.py", "app.py"}
    /\ claim_classifier \in BOOLEAN
    /\ IF service = "app.py"
       THEN /\ advice_generator = claim_classifier
            /\ SERPER_API_KEY = FALSE
            /\ material_database = FabricDatabase
       ELSE /\ advice_generator = FALSE
            /\ SERPER_API_KEY \in BOOLEAN
            /\ material_database \in FiberTables
    /\ request = NoRequest
    /\ response = NoResponse
    /\ again = NoResponse
    /\ analyzer = NoAnalyzer
    /\ report = NoReport

\* POST /analyze of src/backend/app.py
AnalyzeText ==
    /\ service = "backend/app.py"
    /\ request = NoRequest
    /\ \E req \in Requests :
        /\ req.route = "/analyze"
        /\ request' = req
        /\ response' = analyze_text(req)
    /\ UNCHANGED <<service, claim_classifier, advice_generator, SERPER_API_KEY,
                   material_database, again, analyzer, report>>

\* POST /analyze-image of src/backend/app.py
AnalyzeImage ==
    /\ service = "backend/app.py"
    /\ request = NoRequest
    /\ \E req \in Requests, fiber \in Choices :
        /\ req.route = "/analyze-image"
        /\ request' = req
        /\ response' = analyze_image(req, fiber)
    /\ UNCHANGED <<service, claim_classifier, advice_generator, SERPER_API_KEY,
                   material_database, again, analyzer, report>>

\* POST /analyze of src/app.py
AnalyzeFabric ==
    /\ service = "app.py"
    /\ request = NoRequest
    /\ \E req \in FabricRequests :
        /\ request' = req
        /\ response' = analyze_fabric(req)
    /\ UNCHANGED <<service, claim_classifier, advice_generator, SERPER_API_KEY,
                   material_database, again, analyzer, report>>

\* the client sends the same request once more, and every external service
\* answers as it did the first time
SendAgain ==
    /\ request # NoRequest
    /\ again = NoResponse
    /\ \E fiber \in Choices : again' = Handle(request, fiber)
    /\ UNCHANGED <<service, claim_classifier, advice_generator, SERPER_API_KEY,
                   material_database, request, response, analyzer, report>>

\* the client is done with the responses
Done ==
    /\ request # NoRequest
    /\ request' = NoRequest
    /\ response' = NoResponse
    /\ again' = NoResponse
    /\ UNCHANGED <<service, claim_classifier, advice_generator, SERPER_API_KEY,
                   material_database, analyzer, report>>

Next == AnalyzeText \/ AnalyzeImage \/ AnalyzeFabric \/ SendAgain \/ Done

Spec == Init /\ [][Next]_vars

\* PackagingAnalyzer(data_directory): the tables are loaded; neither web
\* service runs in this process
PackagingInit ==
    /\ service = "packaging_api_tester.py"
    /\ claim_classifier = FALSE
    /\ advice_generator = FALSE
    /\ SERPER_API_KEY = FALSE
    /\ material_database = <<>>
    /\ request = NoRequest
    /\ response = NoResponse
    /\ again = NoResponse
    /\ analyzer \in Analyzers
    /\ report = NoReport

\* a call analyzer.analyze_packaging(material_name, city_name)
AnalyzePackaging ==
    /\ service = "packaging_api_tester.py"
    /\ \E material_name \in MaterialNames, city_name \in CityNames :
        LET ret == analyze_packaging(analyzer, material_name, city_name)
        IN  /\ analyzer' = ret.self
            /\ report' = [material_name |-> material_name,
                          city_name |-> city_name,
                          called |-> TRUE,
                          result |-> ret.result]
    /\ UNCHANGED <<service, claim_classifier, advice_generator, SERPER_API_KEY,
                   material_database, request, response, again>>

PackagingNext == AnalyzePackaging

PackagingSpec == PackagingInit /\ [][PackagingNext]_vars

----------------------------------------------------------------------------
(* Properties *)

Abs(x) == IF x < 0 THEN -x ELSE x

\* the analysis succeeded and r is its result
Analysed(r) == r.status = 200

\* the top of the scale of the running service, in tenths
TopOfScale ==
    IF service = "app.py" THEN MAX_SCORE * TENTHS ELSE MAX_ECOSCORE * TENTHS

\* the neutral default of the running service, in tenths
NeutralDefault ==
    IF service = "app.py" THEN DEFAULT_SCORE * TENTHS ELSE DEFAULT_ECOSCORE * TENTHS

\* the sum of the base scores of a sequence of matches
RECURSIVE SumOfScores(_)
SumOfScores(ms) ==
    IF ms = <<>> THEN 0 ELSE Head(ms).ecoScore + SumOfScores(Tail(ms))

\* v tenths is a value with one decimal place nearest to sum / n
NearestTenth(v, sum, n) == 2 * Abs(n * v - TENTHS * sum) <= n

\* v tenths is a whole number nearest to sum / n
NearestWhole(v, sum, n) ==
    /\ v % TENTHS = 0
    /\ 2 * Abs(n * (v \div TENTHS) - sum) <= n

\* no signal is active in r
NoSignal(r) == ~r.environmentalClaim /\ r.webVerification = 0

UpperLetters == "ABCDEFGHIJKLMNOPQRSTUVWXYZ"
LowerLetters == "abcdefghijklmnopqrstuvwxyz"

\* the pairs of a capital letter and its small letter
CasePairs ==
    {<<SubSeq(UpperLetters, k, k), SubSeq(LowerLetters, k, k)>> :
        k \in 1..Len(UpperLetters)}

\* c and d are the same character, or the same letter in different case
SameIgnoringCase(c, d) ==
    c = d \/ <<c, d>> \in CasePairs \/ <<d, c>> \in CasePairs

\* a occurs in text as a substring, letter case ignored
OccursIgnoringCase(a, text) ==
    \E i \in 1..(Len(text) - Len(a) + 1) :
        \A j \in 1..Len(a) :
            SameIgnoringCase(SubSeq(text, i + j - 1, i + j - 1), SubSeq(a, j, j))

\* the key and the aliases of a table entry
NamesOf(e) ==
    IF service = "app.py" THEN {e.name}
    ELSE {e.key} \cup {e.includes[k] : k \in DOMAIN e.includes}

\* the entries of the table that the text names, in table order
Named(text) ==
    SelectSeq(material_database,
              LAMBDA e : \E a \in NamesOf(e) : OccursIgnoringCase(a, text))

\* what the response shows of a table entry
Shown(e) ==
    IF service = "app.py" THEN [name |-> e.name, ecoScore |-> e.score]
    ELSE [name |-> e.displayName, ecoScore |-> e.ecoScore]

\* the request is one the handler analyses: it carries a text, and the
\* models the service needs are loaded
AnalysableText ==
    /\ request # NoRequest
    /\ request.route = "/analyze"
    /\ request.is_json
    /\ request.text # ""
    /\ claim_classifier
    /\ service = "app.py" => advice_generator

\* r, when it is a result, lies on the scale of the running service
ScoreWithinScaleOf(r) ==
    Analysed(r) => 0 <= r.overallScore /\ r.overallScore <= TopOfScale

\* C1: a successful analysis returns 0 <= overallScore <= MAX_SCORE (30 in
\* analyze_text_core, 100 in analyze_fabric), however many bonuses fire.
C1_ScoreWithinScale == ScoreWithinScaleOf(response) /\ ScoreWithinScaleOf(again)

\* reached: both bonuses fired on a top base score and the clamp cut them off
C1_Witness ==
    /\ service = "backend/app.py"
    /\ Analysed(response)
    /\ response.environmentalClaim
    /\ response.webVerification >= WEB_VERIFICATION_CAP
    /\ SumOfScores(response.materials) = MAX_ECOSCORE * Len(response.materials)
    /\ response.materials # <<>>
    /\ response.overallScore = MAX_ECOSCORE * TENTHS

\* r, with matches and no signal, is the mean to one decimal place
MeanToOneDecimalOf(r) ==
    (Analysed(r) /\ r.materials # <<>> /\ NoSignal(r))
        => NearestTenth(r.overallScore, SumOfScores(r.materials), Len(r.materials))

\* C2 as claimed: with matches and no active signal, overallScore is the mean
\* of the base scores rounded to one decimal place, in both services.
C2_MeanToOneDecimal == MeanToOneDecimalOf(response) /\ MeanToOneDecimalOf(again)

\* r, with matches and no signal, is the mean as the running service rounds it
MeanRoundedOf(r) ==
    (Analysed(r) /\ r.materials # <<>> /\ NoSignal(r))
        => IF service = "app.py"
           THEN NearestWhole(r.overallScore, SumOfScores(r.materials),
                             Len(r.materials))
           ELSE NearestTenth(r.overallScore, SumOfScores(r.materials),
                             Len(r.materials))

\* C2 amended: with matches and no active signal, overallScore is the mean of
\* the base scores rounded to one decimal place in analyze_text_core and
\* rounded to a whole number in analyze_fabric.
C2_MeanRounded == MeanRoundedOf(response) /\ MeanRoundedOf(again)

\* reached: a mean that is no whole number, returned with its decimal place
C2_Witness ==
    /\ service = "backend/app.py"
    /\ Analysed(response)
    /\ Len(response.materials) > 1
    /\ NoSignal(response)
    /\ response.overallScore % TENTHS # 0

\* r of analyze_text_core, with matches, is the rounded mean plus the capped
\* bonuses, clamped
CappedSumOf(r) ==
    (service = "backend/app.py" /\ Analysed(r) /\ r.materials # <<>>) =>
        /\ \E base \in 0..(MAX_ECOSCORE * TENTHS) :
              /\ NearestTenth(base, SumOfScores(r.materials), Len(r.materials))
              /\ r.overallScore =
                    Min(MAX_ECOSCORE * TENTHS,
                        base + (IF r.environmentalClaim
                                THEN ENV_CLAIM_BONUS * TENTHS ELSE 0)
                             + Min(r.webVerification, WEB_VERIFICATION_CAP) * TENTHS)
        /\ (SERPER_API_KEY /\ ~request.web.failed)
              => r.webVerification = request.web.organic
        /\ (Len(r.materials) = 1 /\ r.materials[1].ecoScore = 23
              /\ r.environmentalClaim /\ r.webVerification = 0)
              => r.overallScore = 250 /\ r.summary = "Excellent Choice"

\* C3: in analyze_text_core, with matches, overallScore is
\* min(30, round(mean, 1) + 2 if an environmental claim was detected
\* + min(hits, 2)), each bonus capped by itself; the hits are those the search
\* returned; one entry of base score 23 with only the claim gives 25.0,
\* Excellent.
C3_CappedSum == CappedSumOf(response) /\ CappedSumOf(again)

\* reached: base score 23, the claim bonus alone, 25.0 and Excellent
C3_Witness ==
    /\ service = "backend/app.py"
    /\ Analysed(response)
    /\ Len(response.materials) = 1
    /\ response.materials[1].ecoScore = 23
    /\ response.environmentalClaim
    /\ response.webVerification = 0
    /\ response.overallScore = 250
    /\ response.summary = "Excellent Choice"

\* the matches and the total of r are those of the entries its text names
EntityMatcherOf(r) ==
    Analysed(r) =>
        LET want == Named(r.input_text)
        IN  /\ Len(r.materials) = Len(want)
            /\ \A i \in DOMAIN want : r.materials[i] = Shown(want[i])
            /\ r.total_score = SumOfScores([i \in DOMAIN want |-> Shown(want[i])])

\* C4: the matches are exactly the table entries whose key or an alias occurs
\* in the text, letter case ignored, in table order, each once however many of
\* its aliases occur, its base score added once; a text naming no entry gives
\* no match and no error.
C4_EntityMatcher ==
    /\ EntityMatcherOf(response)
    /\ EntityMatcherOf(again)
    /\ AnalysableText =>
          /\ Analysed(response)
          /\ response.input_text = request.text

\* reached: two names of one entry occur in the text and it is matched once
C4_Witness ==
    /\ service = "backend/app.py"
    /\ Analysed(response)
    /\ \E i \in DOMAIN material_database :
          /\ Cardinality({a \in NamesOf(material_database[i]) :
                            OccursIgnoringCase(a, response.input_text)}) > 1
          /\ Cardinality({k \in DOMAIN response.materials :
                            response.materials[k] = Shown(material_database[i])}) = 1

\* r, without matches, is the neutral default and the search was not run
NeutralDefaultOf(r) ==
    (Analysed(r) /\ r.materials = <<>>) =>
        /\ r.overallScore = NeutralDefault
        /\ r.webVerification = 0

\* C5: when no entity matches, the result is the neutral default (15 of 30,
\* 45 of 100) with no signal applied, whatever the classifier and the search
\* say, and it is a result, not an error.
C5_NeutralDefault ==
    /\ NeutralDefaultOf(response)
    /\ NeutralDefaultOf(again)
    /\ (AnalysableText /\ Named(request.text) = <<>>) =>
          /\ Analysed(response)
          /\ response.overallScore = NeutralDefault

\* reached: nothing matched while the classifier reported a claim and the
\* search had results to give
C5_Witness ==
    /\ service = "backend/app.py"
    /\ Analysed(response)
    /\ material_database # <<>>
    /\ response.materials = <<>>
    /\ response.environmentalClaim
    /\ SERPER_API_KEY
    /\ ~request.web.failed
    /\ request.web.organic > 0
    /\ response.overallScore = DEFAULT_ECOSCORE * TENTHS

\* the band of a summary label, 1 the lowest
BandOfLabel(label) ==
    CASE label = "Excellent Choice" -> 4
      [] label = "Good Choice" -> 3
      [] label = "Could Be Better" -> 2
      [] label = "Consider Alternatives" -> 1
      [] OTHER -> 0

\* the band of a tip of generate_tip, 1 the lowest
BandOfTip(tip) ==
    CASE tip = "Excellent choice. Focus on durability and mindful care." -> 4
      [] tip = "Fairly sustainable. Washing less and air-drying helps." -> 3
      [] tip = "Moderate impact. Consider natural or recycled fibers." -> 2
      [] tip = "High impact. Prefer hemp, linen, or recycled materials." -> 1
      [] OTHER -> -1

\* the thresholds of the running service, in tenths
Thresholds ==
    IF service = "app.py" THEN {40 * TENTHS, 60 * TENTHS, 85 * TENTHS}
    ELSE {12 * TENTHS, 18 * TENTHS, 24 * TENTHS}

\* the label of the running service for a score in tenths
LabelOf(score) ==
    IF service = "app.py" THEN FabricSummary(score) ELSE Summary(score)

\* the service waits for a request
Idle == request = NoRequest

\* r, without matches, is in the lowest band
LowestBandOf(r) ==
    (Analysed(r) /\ r.materials = <<>>) =>
        /\ r.summary = "Consider Alternatives"
        /\ service = "backend/app.py" => BandOfTip(r.recommendation) = 1

\* C6 as claimed: when no entity matches, the label is the lowest one,
\* Consider Alternatives, and generate_tip gives the 'High impact' tip.
C6_LowestBand == LowestBandOf(response) /\ LowestBandOf(again)

\* r, without matches, is in the second lowest band
SecondBandOf(r) ==
    (Analysed(r) /\ r.materials = <<>>) =>
        /\ r.summary = "Could Be Better"
        /\ service = "backend/app.py" => BandOfTip(r.recommendation) = 2

\* C6 amended: when no entity matches, the label is the second lowest one,
\* Could Be Better, in both services, and generate_tip gives the 'Moderate
\* impact' tip.
C6_SecondBand == SecondBandOf(response) /\ SecondBandOf(again)

\* reached: a text naming no entry of a table that has entries, analysed
C6_Witness ==
    /\ service = "backend/app.py"
    /\ Analysed(response)
    /\ material_database # <<>>
    /\ response.materials = <<>>
    /\ response.summary = "Could Be Better"

\* the request carries a text to analyse
TextSent ==
    /\ request # NoRequest
    /\ request.route = "/analyze"
    /\ request.is_json
    /\ request.text # ""

\* the models the running service needs are loaded
ModelsLoaded == claim_classifier /\ (service = "app.py" => advice_generator)

\* C7 as claimed: the analysis of a text completes with a score, a label and
\* a recommendation whether or not the classifier loaded, the search key is
\* set and the search request succeeds.
C7_NeverFails ==
    TextSent =>
        /\ Analysed(response)
        /\ response.summary # ""
        /\ response.recommendation # ""

\* C7 amended: when the search is unavailable (key missing, request failed)
\* the search signal is inactive and the analysis completes with a score, a
\* label and a recommendation; when the classifier (or, in src/app.py, the
\* advice generator) failed to load, the analysis fails with status 500.
C7_SearchOptional ==
    /\ (TextSent /\ ModelsLoaded) =>
          /\ Analysed(response)
          /\ response.summary # ""
          /\ response.recommendation # ""
          /\ (service = "backend/app.py" /\ (~SERPER_API_KEY \/ request.web.failed))
                => response.webVerification = 0
    /\ (TextSent /\ ~ModelsLoaded) => response.status = 500

\* reached: entities matched, the search request failed, the analysis completed
C7_Witness ==
    /\ service = "backend/app.py"
    /\ TextSent
    /\ SERPER_API_KEY
    /\ request.web.failed
    /\ Analysed(response)
    /\ response.materials # <<>>
    /\ response.webVerification = 0

\* the tip and the label of r are of the same band
TipAgreesOf(r) ==
    (service = "backend/app.py" /\ Analysed(r)) =>
        BandOfTip(r.recommendation) = BandOfLabel(r.summary)

\* C8: generate_tip selects by the bands of the summary label: for every
\* score the tip is the one of band k exactly when the label is the one of
\* band k (the second conjunct does not depend on the state: it is evaluated
\* while the service is idle).
C8_TipAgrees ==
    /\ TipAgreesOf(response)
    /\ TipAgreesOf(again)
    /\ Idle => \A score \in 0..(MAX_ECOSCORE * TENTHS) :
                  BandOfTip(generate_tip(score)) = BandOfLabel(Summary(score))

\* reached: a score in the Good band, with the tip of that band
C8_Witness ==
    /\ service = "backend/app.py"
    /\ Analysed(response)
    /\ response.summary = "Good Choice"
    /\ response.recommendation
          = "Fairly sustainable. Washing less and air-drying helps."

\* the band of r's label is one more than the number of thresholds reached
LabelByThresholdsOf(r) ==
    Analysed(r) =>
        BandOfLabel(r.summary)
            = 1 + Cardinality({t \in Thresholds : r.overallScore >= t})

\* C9: the label never gets lower as the score gets higher, under 12/18/24 and
\* under 40/60/85, and the highest threshold the score reaches decides: the
\* label's band is one more than the number of thresholds reached (the first
\* conjunct does not depend on the state beyond the service: it is evaluated
\* while the service is idle).
C9_LabelMonotonic ==
    /\ Idle => \A a, b \in 0..TopOfScale :
                  a <= b => BandOfLabel(LabelOf(a)) <= BandOfLabel(LabelOf(b))
    /\ LabelByThresholdsOf(response)
    /\ LabelByThresholdsOf(again)

\* reached: a score above the lowest threshold and below the next one
C9_Witness ==
    /\ service = "app.py"
    /\ Analysed(response)
    /\ response.overallScore > 40 * TENTHS
    /\ response.overallScore < 60 * TENTHS
    /\ response.summary = "Could Be Better"

\* the two responses show the same result
SameResult(r1, r2) ==
    /\ r1.status = r2.status
    /\ r1.overallScore = r2.overallScore
    /\ r1.summary = r2.summary
    /\ r1.materials = r2.materials
    /\ r1.recommendation = r2.recommendation

\* the string holds a character that is no white space (the last five are
\* the vertical tab 0x0B and the separators 0x1C to 0x1F)
NonBlank(str) ==
    \E i \in 1..Len(str) :
        SubSeq(str, i, i) \notin {" ", "\t", "\n", "\r", "\f",
                                  "", "", "", "", ""}

\* the request is an image that OCR reads no text from
UnreadableImage ==
    /\ request.route = "/analyze-image"
    /\ request.has_image
    /\ request.ocr.failed \/ ~NonBlank(request.ocr.raw)

\* C10 as claimed: the same request, answered the same way by every external
\* service, gets the same overallScore, label, matches and recommendation.
C10_Deterministic == again # NoResponse => SameResult(response, again)

\* C10 amended: the same text, or the same image that OCR reads a text from,
\* gets the same overallScore, label, matches and recommendation when every
\* external service answers the same way; an image that OCR reads no text
\* from is answered from a table entry drawn by random.choice, and two runs
\* agree when they draw the same entry.
C10_DeterministicOnText ==
    again # NoResponse =>
        /\ ~UnreadableImage => SameResult(response, again)
        /\ response.input_text = again.input_text => SameResult(response, again)

\* reached: an image with text on it, analysed twice
C10_Witness ==
    /\ again # NoResponse
    /\ request.route = "/analyze-image"
    /\ ~UnreadableImage
    /\ Analysed(response)
    /\ Analysed(again)
    /\ response.materials # <<>>

\* a and b are the same string, letter case ignored
EqualIgnoringCase(a, b) ==
    /\ Len(a) = Len(b)
    /\ \A j \in 1..Len(a) : SameIgnoringCase(SubSeq(a, j, j), SubSeq(b, j, j))

\* the record analyze_packaging gives when it has no infrastructure data
DataUnavailable ==
    [outcome |-> "Data Unavailable",
     notes |-> "No specific recycling data for this material in this city."]

\* the infrastructure table has no entry for the city, or none for the
\* material in it
NoInfraFor(m, city) ==
    \A k \in DOMAIN analyzer.infra :
        EqualIgnoringCase(k, city) => m.mat_id \notin DOMAIN analyzer.infra[k]

\* the result of the last call is an error exactly when no material has the
\* name asked for; otherwise it is a full report on such a material, with the
\* defaults where a table has no entry
ReportOrError ==
    report.called =>
        LET named == {i \in DOMAIN analyzer.materials :
                        EqualIgnoringCase(analyzer.materials[i].name,
                                          report.material_name)}
            res == report.result
        IN  /\ (DOMAIN res = {"error"}) <=> (named = {})
            /\ named # {} =>
                /\ DOMAIN res = {"query", "localized_outcome",
                                 "sustainable_alternatives", "strategic_insights",
                                 "compliance_updates"}
                /\ \E i \in named :
                    LET m == analyzer.materials[i]
                    IN  /\ res.query.material = m.name
                        /\ NoInfraFor(m, report.city_name)
                              => res.localized_outcome = DataUnavailable
                        /\ m.mat_id \notin DOMAIN analyzer.alternatives
                              => res.sustainable_alternatives = <<>>
                        /\ m.category \notin DOMAIN analyzer.esg_sdg
                              => res.strategic_insights.esg_reporting_points = <<>>

\* C11: analyze_packaging returns an error exactly when no material has the
\* given name, letter case ignored; for a material found it returns a full
\* report for every city, with the 'Data Unavailable' record when the city or
\* the material in it has no infrastructure entry and an empty list when the
\* material has no alternatives or ESG entry; and the call leaves the loaded
\* tables as they were.
C11_AnalyzePackaging == []ReportOrError /\ [][analyzer' = analyzer]_vars

\* reached: a material found under a name in another letter case, in a city
\* without infrastructure data, with no alternatives and no ESG entry
C11_Witness ==
    /\ report.called
    /\ report.material_name = "compostable pla cup"
    /\ report.city_name = "Pune"
    /\ analyzer.infra # EmptyDict
    /\ DOMAIN report.result # {"error"}
    /\ report.result.query.material = "Compostable PLA Cup"
    /\ report.result.query.city = "Pune"
    /\ report.result.localized_outcome = DataUnavailable
    /\ report.result.sustainable_alternatives = <<>>
    /\ report.result.strategic_insights.esg_reporting_points = <<>>

====
